---- MODULE Spec2Model ----
(***************************************************************************)
(* A model of run-task.py, the DataSync task runner: main() resolves the   *)
(* source and the destination location, creates a task, waits for it to    *)
(* become ready, starts one execution, polls it until SUCCESS or ERROR,    *)
(* deletes both locations and publishes an SNS notification.               *)
(*                                                                         *)
(* The remote services (DataSync, SNS) are the environment: every remote   *)
(* call either raises (a botocore ClientError) or returns a response drawn *)
(* from a small set.  `calls` is the log of the remote calls issued.       *)
(***************************************************************************)
EXTENDS Integers, Sequences, FiniteSets, TLC

VARIABLES
    config,                 \* the dict returned by the configuration module
    pc,                     \* the statement of main() control is at
    error,                  \* the uncaught exception that ended the run, or NoError
    source_arn,             \* local of main, line 107
    destination_arn,        \* local of main, line 108
    task_arn,               \* local of main, line 116
    task_status,            \* local of main, line 126/128 (its "Status")
    task_execution_arn,     \* local of main, line 137
    task_execution_status,  \* local of main, line 141/147 (the response dict)
    now,                    \* the wall clock, in seconds
    calls                   \* log of the remote calls issued, in order

vars == <<config, pc, error, source_arn, destination_arn, task_arn, task_status,
          task_execution_arn, task_execution_status, now, calls>>

----------------------------------------------------------------------------
(* Bounds of the model *)

\* describe_task responses a run may receive before the model stops polling
MaxTaskPolls == 2
\* describe_task_execution responses a run may receive before the model stops
MaxExecPolls == 2

----------------------------------------------------------------------------
(* Values *)

\* Python's None
None == "None"
\* a key that the dict does not hold
Absent == "<absent>"
\* no exception was raised; an exception is recorded with its kind and the
\* statement of main() that raised it (the traceback)
NoError == [kind |-> "<none>", at |-> "<none>"]
\* the log's mark of a remote call that raised
Raised == "<raised>"

\* the kinds create_location recognises (its if/elif chain)
RecognizedKinds == {"efs", "fsx_windows", "nfs", "object_storage", "s3", "smb"}
\* a kind tag create_location does not know
UnrecognizedKinds == {"ftp"}

\* time.sleep(5)
SleepSeconds == 5

\* the configurations the model draws from: each side's descriptor carries a
\* kind tag (or none) and holds, or not, every key that create_location reads
\* with config[...] for that kind; the optional keys are present or absent
Descriptors ==
    [type : RecognizedKinds \cup UnrecognizedKinds \cup {Absent},
     complete : BOOLEAN]
\* the configurations with the keys main() reads
PlainConfigs ==
    [source          : Descriptors,
     destination     : Descriptors,
     source_arn      : {Absent, "arn:cfg-source"},
     destination_arn : {Absent, "arn:cfg-destination"},
     sns_topic_arn   : {Absent, "arn:cfg-topic"},
     TaskArn         : {Absent},
     on_poll         : {Absent}]
\* configurations of the example's two sides that also supply what main() never
\* reads: the identifier of an existing task (the "TaskArn" of
\* examples/update-task-and-locations.py) and a check to be called on every
\* poll, here one that always asks for the run to be aborted
ExtendedConfigs ==
    [source          : {[type |-> "nfs", complete |-> TRUE]},
     destination     : {[type |-> "s3", complete |-> TRUE]},
     source_arn      : {Absent, "arn:cfg-source"},
     destination_arn : {Absent, "arn:cfg-destination"},
     sns_topic_arn   : {Absent, "arn:cfg-topic"},
     TaskArn         : {Absent, "arn:cfg-task"},
     on_poll         : {Absent, "abort"}]
Configs == PlainConfigs \cup ExtendedConfigs

\* what the remote service may answer
\* the response of create_location_*: the LocationArn of the n-th location, or
\* a response without a LocationArn (response.get then yields None)
LocationArnResponses(n) == {"arn:loc-" \o ToString(n), None}
TaskArnResponses == {"arn:task-1"}
TaskExecutionArnResponses == {"arn:exec-1"}
TaskStatusResponses == {"CREATING", "AVAILABLE", "UNAVAILABLE", "QUEUED"}
EmptyResponse ==
    [Status |-> None, FilesTransferred |-> 0, StartTime |-> 0, ErrorDetail |-> None]
TaskExecutionResponses ==
    {[Status |-> "LAUNCHING", FilesTransferred |-> 0, StartTime |-> 0,
      ErrorDetail |-> None]}
    \cup [Status : {"SUCCESS"}, FilesTransferred : {0, 12}, StartTime : {75},
          ErrorDetail : {None}]
    \cup [Status : {"ERROR"}, FilesTransferred : {0, 12}, StartTime : {75},
          ErrorDetail : {"disk full", "access denied"}]

----------------------------------------------------------------------------
(* The log of remote calls *)

Call(op, side, args, result) ==
    [op |-> op, side |-> side, args |-> args, result |-> result]

Indices(op) == {i \in DOMAIN calls : calls[i].op = op}
Count(op) == Cardinality(Indices(op))
IsCreateLocation(c) ==
    c.op \in {"create_location_efs", "create_location_fsx_windows",
              "create_location_nfs", "create_location_object_storage",
              "create_location_s3", "create_location_smb"}
CreateIndices(side) ==
    {i \in DOMAIN calls : IsCreateLocation(calls[i]) /\ calls[i].side = side}
\* the locations the remote service has created so far
CreatedLocations ==
    {calls[i].result : i \in {j \in DOMAIN calls :
        IsCreateLocation(calls[j]) /\ calls[j].result \notin {Raised, None}}}

----------------------------------------------------------------------------
(* create_location, lines 25-93 *)

NoCall == "<no call>"
\* create_location returned normally
Returned == "<returned>"

\* the if/elif chain on config["type"]: the client method it selects
CreateLocationCall(type) ==
    CASE type = "efs" -> "create_location_efs"
      [] type = "fsx_windows" -> "create_location_fsx_windows"
      [] type = "nfs" -> "create_location_nfs"
      [] type = "object_storage" -> "create_location_object_storage"
      [] type = "s3" -> "create_location_s3"
      [] type = "smb" -> "create_location_smb"
      [] OTHER -> NoCall

\* mutant: the response is read under a key it does not hold
CreateLocationReturnWrongKey(response) == None

\* response.get("LocationArn", None), line 93
CreateLocationReturn(response) == response

\* every way a call create_location(desc) can end: the exception it raises (or
\* Returned), the remote calls it logged and the value it returns
CreateLocationOutcomes(side, desc) ==
    IF desc.type = Absent
    THEN {[err |-> "KeyError", log |-> <<>>, ret |-> None]}
    ELSE IF CreateLocationCall(desc.type) = NoCall
    THEN {[err |-> Returned, log |-> <<>>, ret |-> None]}
    ELSE IF ~desc.complete
    THEN {[err |-> "KeyError", log |-> <<>>, ret |-> None]}
    ELSE {[err |-> "ClientError",
           log |-> <<Call(CreateLocationCall(desc.type), side, <<>>, Raised)>>,
           ret |-> None]}
         \cup
         {[err |-> Returned,
           log |-> <<Call(CreateLocationCall(desc.type), side, <<>>, r)>>,
           ret |-> CreateLocationReturn(r)] :
              r \in LocationArnResponses(Cardinality(CreatedLocations) + 1)}

\* dict.get(key, default) on an optional key of config
ConfigGet(value, default) == IF value # Absent THEN value ELSE default

\* Python evaluates the default argument of config.get before the call, so
\* create_location runs whether or not the identifier is configured
ResolverOutcomes(side, desc, configured) == CreateLocationOutcomes(side, desc)

----------------------------------------------------------------------------
(* main, lines 96-197 *)

Init ==
    /\ config \in Configs
    /\ pc = "resolve_source"
    /\ error = NoError
    /\ source_arn = None
    /\ destination_arn = None
    /\ task_arn = None
    /\ task_status = None
    /\ task_execution_arn = None
    /\ task_execution_status = EmptyResponse
    /\ now = 0
    /\ calls = <<>>

\* an uncaught exception ends the run
Raise(kind) ==
    /\ pc' = "failed"
    /\ error' = [kind |-> kind, at |-> pc]

\* line 107
ResolveSource ==
    /\ pc = "resolve_source"
    /\ \E o \in ResolverOutcomes("source", config.source, config.source_arn) :
         /\ calls' = calls \o o.log
         /\ IF o.err # Returned
            THEN Raise(o.err) /\ UNCHANGED source_arn
            ELSE /\ source_arn' = ConfigGet(config.source_arn, o.ret)
                 /\ pc' = "resolve_destination"
                 /\ UNCHANGED error
    /\ UNCHANGED <<config, destination_arn, task_arn, task_status,
                   task_execution_arn, task_execution_status, now>>

\* lines 108-110
ResolveDestination ==
    /\ pc = "resolve_destination"
    /\ \E o \in ResolverOutcomes("destination", config.destination,
                                 config.destination_arn) :
         /\ calls' = calls \o o.log
         /\ IF o.err # Returned
            THEN Raise(o.err) /\ UNCHANGED destination_arn
            ELSE /\ destination_arn' = ConfigGet(config.destination_arn, o.ret)
                 /\ pc' = "check_locations"
                 /\ UNCHANGED error
    /\ UNCHANGED <<config, source_arn, task_arn, task_status,
                   task_execution_arn, task_execution_status, now>>

\* mutant: the run is refused only when neither side resolved
UnresolvedBoth(src, dst) == src = None /\ dst = None

\* line 112
Unresolved(src, dst) == src = None \/ dst = None

\* lines 112-113
CheckLocations ==
    /\ pc = "check_locations"
    /\ IF Unresolved(source_arn, destination_arn)
       THEN Raise("InvalidConfigError")
       ELSE pc' = "create_task" /\ UNCHANGED error
    /\ UNCHANGED <<config, source_arn, destination_arn, task_arn, task_status,
                   task_execution_arn, task_execution_status, now, calls>>

\* the SourceLocationArn and DestinationLocationArn of create_task, lines 117-118
CreateTaskArgs(src, dst) == <<src, dst>>

\* lines 116-121
CreateTask ==
    /\ pc = "create_task"
    /\ \/ /\ calls' = Append(calls, Call("create_task", "-",
                               CreateTaskArgs(source_arn, destination_arn), Raised))
          /\ Raise("ClientError")
          /\ UNCHANGED task_arn
       \/ \E r \in TaskArnResponses :
            /\ calls' = Append(calls, Call("create_task", "-",
                                 CreateTaskArgs(source_arn, destination_arn), r))
            /\ task_arn' = r
            /\ pc' = "describe_task"
            /\ UNCHANGED error
    /\ UNCHANGED <<config, source_arn, destination_arn, task_status,
                   task_execution_arn, task_execution_status, now>>

\* mutant: the readiness loop ends on the first answer that has a status
TaskLoopCondAnyStatus(status) == status = None

\* the condition of the while loop of line 127
TaskLoopCond(status) == status \notin {"AVAILABLE", "UNAVAILABLE", "QUEUED"}

\* mutant: the readiness loop gives up after one pending answer
DescribeTaskTimingOut ==
    /\ pc = "describe_task"
    /\ TaskLoopCond(task_status)
    /\ Count("describe_task") < MaxTaskPolls
    /\ \/ /\ calls' = Append(calls, Call("describe_task", "-", <<task_arn>>, Raised))
          /\ Raise("ClientError")
          /\ UNCHANGED <<task_status, now>>
       \/ \E r \in TaskStatusResponses :
            /\ calls' = Append(calls, Call("describe_task", "-", <<task_arn>>, r))
            /\ task_status' = r
            /\ now' = now + SleepSeconds
            /\ IF TaskLoopCond(r)
               THEN Raise("TimeoutError")
               ELSE pc' = "check_task_status" /\ UNCHANGED error
    /\ UNCHANGED <<config, source_arn, destination_arn, task_arn,
                   task_execution_arn, task_execution_status>>

\* mutant: a describe_task call that raises is tried again
DescribeTaskRetrying ==
    /\ pc = "describe_task"
    /\ TaskLoopCond(task_status)
    /\ Count("describe_task") < MaxTaskPolls
    /\ \/ /\ calls' = Append(calls, Call("describe_task", "-", <<task_arn>>, Raised))
          /\ now' = now + SleepSeconds
          /\ UNCHANGED <<task_status, pc, error>>
       \/ \E r \in TaskStatusResponses :
            /\ calls' = Append(calls, Call("describe_task", "-", <<task_arn>>, r))
            /\ task_status' = r
            /\ now' = now + SleepSeconds
            /\ pc' = IF TaskLoopCond(r) THEN "describe_task" ELSE "check_task_status"
            /\ UNCHANGED error
    /\ UNCHANGED <<config, source_arn, destination_arn, task_arn,
                   task_execution_arn, task_execution_status>>

\* lines 127-129: one iteration of the readiness loop (the loop is entered with
\* task_status = {}, whose Status is None) and the test that follows it
DescribeTask ==
    /\ pc = "describe_task"
    /\ TaskLoopCond(task_status)
    /\ Count("describe_task") < MaxTaskPolls
    /\ \/ /\ calls' = Append(calls, Call("describe_task", "-", <<task_arn>>, Raised))
          /\ Raise("ClientError")
          /\ UNCHANGED <<task_status, now>>
       \/ \E r \in TaskStatusResponses :
            /\ calls' = Append(calls, Call("describe_task", "-", <<task_arn>>, r))
            /\ task_status' = r
            /\ now' = now + SleepSeconds
            /\ pc' = IF TaskLoopCond(r) THEN "describe_task" ELSE "check_task_status"
            /\ UNCHANGED error
    /\ UNCHANGED <<config, source_arn, destination_arn, task_arn,
                   task_execution_arn, task_execution_status>>

\* mutant: the status is compared with a misspelt name
TaskUnavailableMisspelt(status) == status = "UNAVAILIBLE"

\* line 131
TaskUnavailable(status) == status = "UNAVAILABLE"

\* lines 131-132
CheckTaskStatus ==
    /\ pc = "check_task_status"
    /\ IF TaskUnavailable(task_status)
       THEN Raise("InvalidArnException")
       ELSE pc' = "start_task_execution" /\ UNCHANGED error
    /\ UNCHANGED <<config, source_arn, destination_arn, task_arn, task_status,
                   task_execution_arn, task_execution_status, now, calls>>

\* lines 137-139
StartTaskExecution ==
    /\ pc = "start_task_execution"
    /\ \/ /\ calls' = Append(calls, Call("start_task_execution", "-",
                                         <<task_arn>>, Raised))
          /\ Raise("ClientError")
          /\ UNCHANGED task_execution_arn
       \/ \E r \in TaskExecutionArnResponses :
            /\ calls' = Append(calls, Call("start_task_execution", "-",
                                           <<task_arn>>, r))
            /\ task_execution_arn' = r
            /\ pc' = "describe_task_execution"
            /\ UNCHANGED error
    /\ UNCHANGED <<config, source_arn, destination_arn, task_arn, task_status,
                   task_execution_status, now>>

\* mutant: the loop never ends
ExecLoopCondAlways(status) == TRUE

\* mutant: the loop ends on SUCCESS only
ExecLoopCondSuccessOnly(status) == status # "SUCCESS"

\* the condition of the while loop of line 145
ExecLoopCond(status) == status \notin {"SUCCESS", "ERROR"}

\* lines 145-154: one iteration of the execution loop (entered with
\* task_execution_status = {}) and the test that follows it
DescribeTaskExecution ==
    /\ pc = "describe_task_execution"
    /\ ExecLoopCond(task_execution_status.Status)
    /\ Count("describe_task_execution") < MaxExecPolls
    /\ \/ /\ calls' = Append(calls, Call("describe_task_execution", "-",
                                         <<task_execution_arn>>, Raised))
          /\ Raise("ClientError")
          /\ UNCHANGED <<task_execution_status, now>>
       \/ \E r \in TaskExecutionResponses :
            /\ calls' = Append(calls, Call("describe_task_execution", "-",
                                           <<task_execution_arn>>, r.Status))
            /\ task_execution_status' = r
            /\ now' = now + SleepSeconds
            /\ pc' = IF ExecLoopCond(r.Status) THEN "describe_task_execution"
                                              ELSE "delete_source"
            /\ UNCHANGED error
    /\ UNCHANGED <<config, source_arn, destination_arn, task_arn, task_status,
                   task_execution_arn>>

\* line 158
DeleteSourceLocation ==
    /\ pc = "delete_source"
    /\ \/ /\ calls' = Append(calls, Call("delete_location", "source",
                                         <<source_arn>>, Raised))
          /\ Raise("ClientError")
       \/ /\ calls' = Append(calls, Call("delete_location", "source",
                                         <<source_arn>>, None))
          /\ pc' = "delete_destination"
          /\ UNCHANGED error
    /\ UNCHANGED <<config, source_arn, destination_arn, task_arn, task_status,
                   task_execution_arn, task_execution_status, now>>

\* mutant: the second deletion repeats the first one's argument
DeleteDestinationLocationRepeatsSource ==
    /\ pc = "delete_destination"
    /\ \/ /\ calls' = Append(calls, Call("delete_location", "destination",
                                         <<source_arn>>, Raised))
          /\ Raise("ClientError")
       \/ /\ calls' = Append(calls, Call("delete_location", "destination",
                                         <<source_arn>>, None))
          /\ pc' = "notify"
          /\ UNCHANGED error
    /\ UNCHANGED <<config, source_arn, destination_arn, task_arn, task_status,
                   task_execution_arn, task_execution_status, now>>

\* line 159
DeleteDestinationLocation ==
    /\ pc = "delete_destination"
    /\ \/ /\ calls' = Append(calls, Call("delete_location", "destination",
                                         <<destination_arn>>, Raised))
          /\ Raise("ClientError")
       \/ /\ calls' = Append(calls, Call("delete_location", "destination",
                                         <<destination_arn>>, None))
          /\ pc' = "notify"
          /\ UNCHANGED error
    /\ UNCHANGED <<config, source_arn, destination_arn, task_arn, task_status,
                   task_execution_arn, task_execution_status, now>>

----------------------------------------------------------------------------
(* The notification, lines 161-197 *)

Pad2(n) == IF n < 10 THEN "0" \o ToString(n) ELSE ToString(n)

\* strftime("%Y-%m-%d %H:%M:%S") of a time t given in seconds after
\* 1970-01-01 00:00:00, for the times of the first hour (t < 3600)
Strftime(t) ==
    "1970-01-01 00:" \o Pad2(t \div 60) \o ":" \o Pad2(t % 60)

\* a template is a sequence of literal texts and replacement fields
Lit(text) == [lit |-> text, field |-> ""]
Field(name) == [lit |-> "", field |-> name]

\* templates/success.txt
SuccessTemplate ==
    <<Lit("DataSync transferred "), Field("count"), Lit(" files from "),
      Field("source"), Lit(" to "), Field("destination"), Lit(". Started: "),
      Field("start_time"), Lit(". Ended: "), Field("end_time"), Lit(".")>>

\* templates/failure.txt
FailureTemplate ==
    <<Lit("DataSync failed after "), Field("count"), Lit(" files from "),
      Field("source"), Lit(" to "), Field("destination"), Lit(". Started: "),
      Field("start_time"), Lit(". Ended: "), Field("end_time"), Lit(". Error: "),
      Field("error"), Lit(".")>>

\* str.format(**kw): every replacement field is replaced by str() of the keyword
\* argument it names; the literal text is kept
Format(template, kw) ==
    [i \in DOMAIN template |->
        IF template[i].field = "" THEN template[i].lit ELSE kw[template[i].field]]

\* str.format raises KeyError for a field that names no keyword argument
FormatRaises(template, kw) ==
    \E i \in DOMAIN template :
        template[i].field # "" /\ template[i].field \notin DOMAIN kw

\* mutant: start_time and end_time are exchanged
SuccessKwargsTimesSwapped(status, src, dst, end) ==
    [count       |-> ToString(status.FilesTransferred),
     source      |-> src,
     destination |-> dst,
     start_time  |-> Strftime(end),
     end_time    |-> Strftime(status.StartTime)]

\* the keyword arguments of lines 174-180
SuccessKwargs(status, src, dst, end) ==
    [count       |-> ToString(status.FilesTransferred),
     source      |-> src,
     destination |-> dst,
     start_time  |-> Strftime(status.StartTime),
     end_time    |-> Strftime(end)]

\* mutant: source and destination are exchanged
FailureKwargsSidesSwapped(status, src, dst, end) ==
    [count       |-> ToString(status.FilesTransferred),
     source      |-> dst,
     destination |-> src,
     start_time  |-> Strftime(status.StartTime),
     end_time    |-> Strftime(end),
     error       |-> status.ErrorDetail]

\* the keyword arguments of lines 188-195
FailureKwargs(status, src, dst, end) ==
    [count       |-> ToString(status.FilesTransferred),
     source      |-> src,
     destination |-> dst,
     start_time  |-> Strftime(status.StartTime),
     end_time    |-> Strftime(end),
     error       |-> status.ErrorDetail]

\* the if/elif of lines 171 and 185: the template, its arguments and the subject
Notification(status, src, dst, end) ==
    IF status.Status = "SUCCESS"
    THEN [template |-> SuccessTemplate, kw |-> SuccessKwargs(status, src, dst, end),
          subject |-> "DataSync Success"]
    ELSE [template |-> FailureTemplate, kw |-> FailureKwargs(status, src, dst, end),
          subject |-> "DataSync Failure"]

\* mutant: the notification is sent whether or not a topic is configured
TopicConfiguredAlways(topic) == TRUE

\* line 164: whether a notification is to be sent
TopicConfigured(topic) == ConfigGet(topic, None) # None

\* lines 162-197
Notify ==
    /\ pc = "notify"
    /\ IF ~TopicConfigured(config.sns_topic_arn)
       THEN pc' = "done" /\ UNCHANGED <<error, calls>>
       ELSE LET n == Notification(task_execution_status, source_arn,
                                  destination_arn, now)
            IN  IF FormatRaises(n.template, n.kw)
                THEN Raise("KeyError") /\ UNCHANGED calls
                ELSE LET args == <<config.sns_topic_arn, n.subject>>
                                 \o Format(n.template, n.kw)
                     IN  \/ /\ calls' = Append(calls, Call("publish", "-", args, Raised))
                            /\ Raise("ClientError")
                         \/ /\ calls' = Append(calls, Call("publish", "-", args, None))
                            /\ pc' = "done"
                            /\ UNCHANGED error
    /\ UNCHANGED <<config, source_arn, destination_arn, task_arn, task_status,
                   task_execution_arn, task_execution_status, now>>

Next ==
    \/ ResolveSource
    \/ ResolveDestination
    \/ CheckLocations
    \/ CreateTask
    \/ DescribeTask
    \/ CheckTaskStatus
    \/ StartTaskExecution
    \/ DescribeTaskExecution
    \/ DeleteSourceLocation
    \/ DeleteDestinationLocation
    \/ Notify

Spec == Init /\ [][Next]_vars

----------------------------------------------------------------------------
(* Vocabulary of the properties *)

Sides == {"source", "destination"}
Descriptor(side) == IF side = "source" THEN config.source ELSE config.destination
ConfiguredArn(side) ==
    IF side = "source" THEN config.source_arn ELSE config.destination_arn
ResolvedArn(side) == IF side = "source" THEN source_arn ELSE destination_arn
ResolveStep(side) ==
    IF side = "source" THEN "resolve_source" ELSE "resolve_destination"
\* the place of a side's identifier among the arguments of create_task
ArgOf(side) == IF side = "source" THEN 1 ELSE 2

\* the statements of main() in the order control passes them
Steps ==
    <<"resolve_source", "resolve_destination", "check_locations", "create_task",
      "describe_task", "check_task_status", "start_task_execution",
      "describe_task_execution", "delete_source", "delete_destination",
      "notify", "done">>
StepNo(p) == CHOOSE i \in DOMAIN Steps : Steps[i] = p
\* the statement control is at, or the one whose exception ended the run
Position == IF pc = "failed" THEN StepNo(error.at) ELSE StepNo(pc)
\* the statement has been executed and raised nothing
Completed(step) == Position > StepNo(step)
\* the statement has been executed, or raised an exception
Executed(step) == Completed(step) \/ (pc = "failed" /\ error.at = step)
Last(seq) == seq[Len(seq)]
TerminalStatuses == {"SUCCESS", "ERROR"}

----------------------------------------------------------------------------
(* C1 *)

\* C1 (as claimed): a side whose identifier the configuration supplies is never
\* the subject of a create-location call.  The code violates it: the default
\* argument create_location(config[side]) of config.get is evaluated first.
C1_NoCreateForConfiguredSide ==
    \A side \in Sides :
        ConfiguredArn(side) # Absent => CreateIndices(side) = {}

----------------------------------------------------------------------------
(* C2 *)

\* C2: for a side with no configured identifier and a recognized kind (and the
\* keys that kind requires), once the side's resolution has run there is
\* exactly one create-location call for the side, it is the call of that kind,
\* and when it returned, the identifier main() holds for the side, and passes
\* to create_task, is the LocationArn of its response.
C2_CreateReturnsResponseArn ==
    \A side \in Sides :
        (/\ ConfiguredArn(side) = Absent
         /\ Descriptor(side).type \in RecognizedKinds
         /\ Descriptor(side).complete
         /\ Executed(ResolveStep(side)))
        => \E i \in DOMAIN calls :
              /\ CreateIndices(side) = {i}
              /\ calls[i].op = "create_location_" \o Descriptor(side).type
              /\ Completed(ResolveStep(side)) <=> calls[i].result # Raised
              /\ Completed(ResolveStep(side)) =>
                    /\ ResolvedArn(side) = calls[i].result
                    /\ \A j \in Indices("create_task") :
                          calls[j].args[ArgOf(side)] = calls[i].result

\* C2 witness: a run created its nfs source and its smb destination, and created
\* the task
C2_Witness ==
    /\ config.source_arn = Absent
    /\ config.source.type = "nfs"
    /\ config.destination_arn = Absent
    /\ config.destination.type = "smb"
    /\ source_arn = "arn:loc-1"
    /\ destination_arn = "arn:loc-2"
    /\ Count("create_task") = 1

----------------------------------------------------------------------------
(* C3 *)

\* C3 (as claimed): when a side's kind tag is unrecognized, create_task is never
\* issued, and a run that ends in the configuration error has issued no remote
\* call at all.  The code violates it: the other side's create-location call is
\* issued before line 112 raises, and with a configured identifier nothing
\* raises.
C3_UnrecognizedKindFailsBeforeAnyCall ==
    (\E side \in Sides : Descriptor(side).type \in UnrecognizedKinds)
    => /\ Count("create_task") = 0
       /\ (pc = "failed" /\ error.kind = "InvalidConfigError") => calls = <<>>
       /\ pc # "done"

----------------------------------------------------------------------------
(* C4 *)

\* C4: no describe_task_execution call follows one that answered SUCCESS or
\* ERROR, control leaves the loop only after such an answer (so the calls
\* number exactly the position of the first terminal answer), and
\* start_task_execution is called at most once.
C4_ExecutionPollingStopsAtFirstTerminal ==
    LET polls == Indices("describe_task_execution")
    IN  /\ Count("start_task_execution") <= 1
        /\ \A i \in polls :
              calls[i].result \in TerminalStatuses => \A j \in polls : j <= i
        /\ Completed("describe_task_execution") =>
              \E i \in polls :
                 /\ calls[i].result \in TerminalStatuses
                 /\ \A j \in polls : j < i => calls[j].result \notin TerminalStatuses
                 /\ Cardinality(polls) = Cardinality({j \in polls : j <= i})

\* C4 witness: the loop ended on the second answer
C4_Witness ==
    /\ pc = "done"
    /\ Count("describe_task_execution") = 2
    /\ task_execution_status.Status = "ERROR"

----------------------------------------------------------------------------
(* C5 *)

\* C5: once describe_task has answered UNAVAILABLE, start_task_execution is
\* never called, and the run is either about to raise or has ended with
\* InvalidArnException right after that answer.
C5_UnavailableIsFatal ==
    (\E i \in Indices("describe_task") : calls[i].result = "UNAVAILABLE")
    => /\ Count("start_task_execution") = 0
       /\ Last(calls).op = "describe_task"
       /\ Last(calls).result = "UNAVAILABLE"
       /\ \/ pc = "check_task_status"
          \/ /\ pc = "failed"
             /\ error = [kind |-> "InvalidArnException", at |-> "check_task_status"]

\* C5 witness: a run ended with InvalidArnException
C5_Witness ==
    /\ pc = "failed"
    /\ error.kind = "InvalidArnException"
    /\ task_status = "UNAVAILABLE"

----------------------------------------------------------------------------
(* C6 *)

\* the Message of a publish call (its arguments are the topic, the Subject and
\* the pieces of the Message)
MessageOf(c) == SubSeq(c.args, 3, Len(c.args))
\* the message is the template's text around its replacement fields
UsesTemplate(msg, template) ==
    /\ Len(msg) = Len(template)
    /\ \A k \in DOMAIN template : template[k].field = "" => msg[k] = template[k].lit
FieldsOf(template) == {template[k].field : k \in DOMAIN template} \ {""}

\* C6: at most one message is published, none without a configured topic; a
\* publish call follows a describe_task_execution call that answered SUCCESS
\* or ERROR, goes to the configured topic and uses the success template for
\* SUCCESS and the failure template for ERROR; and a run that completes with a
\* topic configured has published exactly one message, as its last call.
C6_OneNotificationAfterTerminal ==
    /\ Count("publish") <= 1
    /\ config.sns_topic_arn = Absent => Count("publish") = 0
    /\ \A i \in Indices("publish") :
          \E j \in Indices("describe_task_execution") :
             /\ j < i
             /\ calls[j].result \in TerminalStatuses
             /\ calls[i].args[1] = config.sns_topic_arn
             /\ IF calls[j].result = "SUCCESS"
                THEN /\ calls[i].args[2] = "DataSync Success"
                     /\ UsesTemplate(MessageOf(calls[i]), SuccessTemplate)
                ELSE /\ calls[i].args[2] = "DataSync Failure"
                     /\ UsesTemplate(MessageOf(calls[i]), FailureTemplate)
    /\ (pc = "done" /\ config.sns_topic_arn # Absent) =>
          /\ Count("publish") = 1
          /\ Last(calls).op = "publish"
          /\ Last(calls).result # Raised

\* C6 witness: a run with a topic completed after an ERROR and published once
C6_Witness ==
    /\ pc = "done"
    /\ config.sns_topic_arn # Absent
    /\ task_execution_status.Status = "ERROR"
    /\ Count("publish") = 1

\* C6 witness of the other case: a run without a topic completed
C6_WitnessNoTopic ==
    /\ pc = "done"
    /\ config.sns_topic_arn = Absent
    /\ task_execution_status.Status = "SUCCESS"

----------------------------------------------------------------------------
(* C7 *)

\* C7: the message published after an ERROR is the failure template with the
\* count of the final describe_task_execution response, the two identifiers
\* given to create_task and the error detail of that response in the places of
\* the fields count, source, destination and error.
C7_FailureMessageSubstitutions ==
    \A i \in Indices("publish") :
        task_execution_status.Status = "ERROR" =>
            LET msg == MessageOf(calls[i])
                task == calls[CHOOSE j \in Indices("create_task") : TRUE]
            IN  /\ UsesTemplate(msg, FailureTemplate)
                /\ {"count", "source", "destination", "error"}
                      \subseteq FieldsOf(FailureTemplate)
                /\ \A k \in DOMAIN FailureTemplate :
                      /\ FailureTemplate[k].field = "count" =>
                            msg[k] = ToString(task_execution_status.FilesTransferred)
                      /\ FailureTemplate[k].field = "source" =>
                            msg[k] = task.args[1]
                      /\ FailureTemplate[k].field = "destination" =>
                            msg[k] = task.args[2]
                      /\ FailureTemplate[k].field = "error" =>
                            msg[k] = task_execution_status.ErrorDetail

\* C7 witness: the failure message of a run that transferred 12 files
C7_Witness ==
    /\ pc = "done"
    /\ Count("publish") = 1
    /\ task_execution_status.Status = "ERROR"
    /\ task_execution_status.FilesTransferred = 12
    /\ task_execution_status.ErrorDetail = "disk full"
    /\ source_arn # destination_arn

----------------------------------------------------------------------------
(* C8 *)

\* the configuration of configure-task.example.py
ExampleScenario ==
    /\ config.source = [type |-> "nfs", complete |-> TRUE]
    /\ config.destination = [type |-> "s3", complete |-> TRUE]
    /\ config.source_arn = Absent
    /\ config.destination_arn = Absent
    /\ config.sns_topic_arn # Absent

\* C8: a completed run of the example scenario that ended in SUCCESS issued, in
\* this order: one create_location_nfs for the source, one create_location_s3
\* for the destination, create_task with the two identifiers returned, the
\* describe_task calls, one start_task_execution, the describe_task_execution
\* calls of which only the last answered SUCCESS, the two delete_location calls
\* and one publish of the success template with the count, the two
\* identifiers, the start time of the response and the time of the
\* notification.
C8_ExampleScenario ==
    (ExampleScenario /\ pc = "done" /\ task_execution_status.Status = "SUCCESS")
    => LET start == CHOOSE i \in Indices("start_task_execution") : TRUE
           msg == MessageOf(Last(calls))
           slept == SleepSeconds * (Count("describe_task")
                                    + Count("describe_task_execution"))
       IN  /\ CreateIndices("source") = {1}
           /\ calls[1].op = "create_location_nfs"
           /\ CreateIndices("destination") = {2}
           /\ calls[2].op = "create_location_s3"
           /\ Indices("create_task") = {3}
           /\ calls[3].args = <<calls[1].result, calls[2].result>>
           /\ {calls[1].result, calls[2].result} \cap {None, Raised} = {}
           /\ Count("start_task_execution") = 1
           /\ Indices("describe_task") = 4 .. (start - 1)
           /\ Indices("describe_task") # {}
           /\ Indices("describe_task_execution") = (start + 1) .. (Len(calls) - 3)
           /\ \A i \in Indices("describe_task_execution") :
                 calls[i].result = "SUCCESS" <=> i = Len(calls) - 3
           /\ Last(calls).op = "publish"
           /\ Count("publish") = 1
           /\ Last(calls).args[2] = "DataSync Success"
           /\ UsesTemplate(msg, SuccessTemplate)
           /\ FieldsOf(SuccessTemplate)
                 = {"count", "source", "destination", "start_time", "end_time"}
           /\ \A k \in DOMAIN SuccessTemplate :
                 /\ SuccessTemplate[k].field = "count" =>
                       msg[k] = ToString(task_execution_status.FilesTransferred)
                 /\ SuccessTemplate[k].field = "source" => msg[k] = calls[1].result
                 /\ SuccessTemplate[k].field = "destination" =>
                       msg[k] = calls[2].result
                 /\ SuccessTemplate[k].field = "start_time" =>
                       msg[k] = "1970-01-01 00:01:15"
                 /\ SuccessTemplate[k].field = "end_time" =>
                       msg[k] = "1970-01-01 00:00:"
                                \o (IF slept < 10 THEN "0" ELSE "") \o ToString(slept)

\* C8 witness: the example scenario ran to its success notification
C8_Witness ==
    /\ ExampleScenario
    /\ pc = "done"
    /\ task_execution_status.Status = "SUCCESS"
    /\ task_execution_status.FilesTransferred = 12
    /\ Count("describe_task_execution") = 2
    /\ Last(calls).op = "publish"

----------------------------------------------------------------------------
(* C9 *)

\* what line 107 (108) leaves in source_arn (destination_arn): the configured
\* identifier, else the answer to the side's create-location call, else None
Resolution(side) ==
    IF ConfiguredArn(side) # Absent THEN ConfiguredArn(side)
    ELSE IF CreateIndices(side) = {} THEN None
    ELSE calls[CHOOSE i \in CreateIndices(side) : TRUE].result

\* C9: create_task is issued only after both sides resolved to a non-None
\* identifier, and with exactly these two; when line 112 is reached with a
\* side that resolved to None, the run ends there with InvalidConfigError and
\* create_task is never issued.
C9_TaskNeedsBothLocations ==
    /\ \A j \in Indices("create_task") :
          /\ Completed("check_locations")
          /\ Resolution("source") # None
          /\ Resolution("destination") # None
          /\ calls[j].args = <<Resolution("source"), Resolution("destination")>>
    /\ (/\ Executed("check_locations")
        /\ \E side \in Sides : Resolution(side) = None)
       => /\ pc = "failed"
          /\ error = [kind |-> "InvalidConfigError", at |-> "check_locations"]
          /\ Count("create_task") = 0

\* C9 witness: the source resolved, the destination did not
C9_Witness ==
    /\ pc = "failed"
    /\ error.kind = "InvalidConfigError"
    /\ source_arn = "arn:loc-1"
    /\ destination_arn = None

----------------------------------------------------------------------------
(* C10 *)

\* the statement of main() that issues a call
StepOfCall(c) ==
    IF IsCreateLocation(c) THEN ResolveStep(c.side)
    ELSE IF c.op = "delete_location"
    THEN (IF c.side = "source" THEN "delete_source" ELSE "delete_destination")
    ELSE IF c.op = "publish" THEN "notify"
    ELSE c.op

\* C10: a remote call that raised is the last call of the run, and the run has
\* ended with ClientError at the statement that issued it; a run that ended
\* with any exception has issued no call from a later statement, and nothing
\* more can happen in it.
C10_ErrorsAreFatal ==
    /\ pc = "failed" <=> error # NoError
    /\ \A i \in DOMAIN calls :
          calls[i].result = Raised =>
             /\ i = Len(calls)
             /\ pc = "failed"
             /\ error = [kind |-> "ClientError", at |-> StepOfCall(calls[i])]
    /\ pc = "failed" =>
          /\ \A i \in DOMAIN calls : StepNo(StepOfCall(calls[i])) <= StepNo(error.at)
          /\ error.kind = "ClientError" =>
                (calls # <<>> /\ Last(calls).result = Raised)
          /\ ~ENABLED Next

\* C10 witness: delete_location raised for the source, nothing followed
C10_Witness ==
    /\ pc = "failed"
    /\ error = [kind |-> "ClientError", at |-> "delete_source"]
    /\ config.sns_topic_arn # Absent
    /\ Last(calls).op = "delete_location"

\* C10 witness of a configuration error: the destination lacks a required key
C10_WitnessKeyError ==
    /\ pc = "failed"
    /\ error = [kind |-> "KeyError", at |-> "resolve_destination"]
    /\ config.destination.type = "s3"
    /\ Len(calls) = 1

----------------------------------------------------------------------------
(* C11 *)

ReadyStatuses == {"AVAILABLE", "UNAVAILABLE", "QUEUED"}

\* C11: as long as every describe_task call so far was answered with a status
\* that is not AVAILABLE, UNAVAILABLE or QUEUED, the run is still in the
\* readiness loop, has raised nothing and has not started the execution, and
\* (below the model's bound on polls) the next describe_task call is enabled;
\* likewise, as long as every describe_task_execution call was answered with a
\* status other than SUCCESS and ERROR, the run is still in the execution loop,
\* has raised nothing, has deleted and published nothing, and the next
\* describe_task_execution call is enabled.
C11_PollingHasNoCeiling ==
    /\ (/\ Completed("create_task")
        /\ \A i \in Indices("describe_task") :
              calls[i].result \notin ReadyStatuses \cup {Raised})
       => /\ pc = "describe_task"
          /\ error = NoError
          /\ Count("start_task_execution") = 0
          /\ Count("describe_task") < MaxTaskPolls => ENABLED DescribeTask
    /\ (/\ Completed("start_task_execution")
        /\ \A i \in Indices("describe_task_execution") :
              calls[i].result \notin TerminalStatuses \cup {Raised})
       => /\ pc = "describe_task_execution"
          /\ error = NoError
          /\ Count("delete_location") = 0
          /\ Count("publish") = 0
          /\ Count("describe_task_execution") < MaxExecPolls
                => ENABLED DescribeTaskExecution

\* C11 witness: both loops went round twice on a pending status
C11_Witness ==
    /\ pc = "describe_task_execution"
    /\ Count("describe_task") = 2
    /\ calls[Len(calls) - 1].op = "describe_task_execution"
    /\ calls[Len(calls) - 1].result = "LAUNCHING"
    /\ Last(calls).result = "LAUNCHING"

----------------------------------------------------------------------------
(* C12 *)

\* C12 (as claimed): when the configuration supplies the identifier of an
\* existing task, no create_task call is issued and the execution is started
\* on the supplied identifier.  The code violates it: main() never reads a
\* task identifier from the configuration, always calls create_task and starts
\* the execution on the task it has just created.
C12_SuppliedTaskIsNotRecreated ==
    config.TaskArn # Absent =>
        /\ Count("create_task") = 0
        /\ \A i \in Indices("start_task_execution") :
              calls[i].args = <<config.TaskArn>>

----------------------------------------------------------------------------
(* C13 *)

\* C13 (as claimed): when the configuration supplies a check for the poll
\* ticks and the check asks for the run to be aborted, no further poll is
\* issued: with a check that always aborts, the run issues at most one
\* describe_task_execution call.  The code violates it: the loop of lines
\* 145-154 calls nothing but describe_task_execution, logging and sleep, and
\* goes on until the status is SUCCESS or ERROR.
C13_CheckGatesPolling ==
    config.on_poll = "abort" => Count("describe_task_execution") <= 1

----------------------------------------------------------------------------
(* C14 *)

\* C14: every start_task_execution call comes after all the describe_task
\* calls of the run, of which there is at least one and the last of which
\* answered AVAILABLE or QUEUED; and every describe_task_execution call comes
\* after a start_task_execution call that returned, and carries the
\* TaskExecutionArn that call returned.
C14_PollingStagesOrdered ==
    /\ \A s \in Indices("start_task_execution") :
          /\ Indices("describe_task") # {}
          /\ \A d \in Indices("describe_task") :
                /\ d < s
                /\ (\A d2 \in Indices("describe_task") : d2 <= d)
                      => calls[d].result \in {"AVAILABLE", "QUEUED"}
    /\ \A e \in Indices("describe_task_execution") :
          \E s \in Indices("start_task_execution") :
             /\ s < e
             /\ calls[s].result # Raised
             /\ calls[e].args = <<calls[s].result>>

\* C14 witness: the task was QUEUED on the second answer, the execution was
\* started and polled
C14_Witness ==
    /\ Count("describe_task") = 2
    /\ task_status = "QUEUED"
    /\ Count("start_task_execution") = 1
    /\ Count("describe_task_execution") = 2

----------------------------------------------------------------------------
(* C15 *)

\* C15 (as claimed): every invocation of create_location that returns has
\* issued exactly one create-location call for its side, and no more than two
\* such calls are issued in a run, all of them before create_task.  The code
\* violates the first part: for an unrecognized kind create_location returns
\* None without raising and without any call (see C3).
C15_OneCallPerResolution ==
    /\ \A side \in Sides :
          Completed(ResolveStep(side)) => Cardinality(CreateIndices(side)) = 1
    /\ Cardinality(CreateIndices("source") \cup CreateIndices("destination")) <= 2
    /\ \A i \in CreateIndices("source") \cup CreateIndices("destination") :
          \A j \in Indices("create_task") : i < j

----------------------------------------------------------------------------
(* C16 *)

\* the identifiers passed to delete_location so far
DeletedLocations == {calls[i].args[1] : i \in Indices("delete_location")}

\* C16 (as claimed): at the end of a run that completes normally every location
\* the run created has been passed to delete_location.  The code violates it
\* for a configuration that supplies source_arn or destination_arn: the side's
\* location is created all the same (see C1), and line 158 (159) deletes the
\* configured identifier, not the created one.
C16_CreatedLocationsAreDeleted ==
    pc = "done" => CreatedLocations \subseteq DeletedLocations

----------------------------------------------------------------------------
(* C17 *)

\* C17 (as claimed): delete_location is only ever called with a location that
\* this run created.  The code violates it: lines 158-159 delete source_arn and
\* destination_arn whatever their origin, so a location whose identifier the
\* configuration supplied is deleted.
C17_OnlyCreatedLocationsAreDeleted ==
    \A i \in Indices("delete_location") : calls[i].args[1] \in CreatedLocations

----------------------------------------------------------------------------
(* C18 *)

\* C18: a delete_location call follows a describe_task_execution call that
\* answered SUCCESS or ERROR; there are at most two, the first for the source
\* identifier given to create_task and the second, issued once the first has
\* returned, for the destination identifier; a run that has passed line 159
\* has issued exactly these two, after SUCCESS and after ERROR alike; and a
\* publish call follows both of them.
C18_CleanupBeforeNotification ==
    LET dels == Indices("delete_location")
        task == calls[CHOOSE j \in Indices("create_task") : TRUE]
    IN  /\ Cardinality(dels) <= 2
        /\ \A i \in dels :
              /\ \E j \in Indices("describe_task_execution") :
                    j < i /\ calls[j].result \in TerminalStatuses
              /\ IF \A k \in dels : i <= k
                 THEN calls[i].side = "source" /\ calls[i].args = <<task.args[1]>>
                 ELSE /\ calls[i].side = "destination"
                      /\ calls[i].args = <<task.args[2]>>
                      /\ \A k \in dels : k < i => calls[k].result # Raised
        /\ Completed("delete_destination") =>
              /\ Cardinality(dels) = 2
              /\ \A i \in dels : calls[i].result # Raised
        /\ \A p \in Indices("publish") :
              Cardinality({i \in dels : i < p /\ calls[i].result # Raised}) = 2

\* C18 witness: after an ERROR both locations were deleted and the run ended
\* without a notification
C18_Witness ==
    /\ pc = "done"
    /\ task_execution_status.Status = "ERROR"
    /\ config.sns_topic_arn = Absent
    /\ Count("delete_location") = 2

\* C18 witness of the notification: it was published after both deletions
C18_WitnessPublished ==
    /\ pc = "done"
    /\ task_execution_status.Status = "SUCCESS"
    /\ Last(calls).op = "publish"
    /\ calls[Len(calls) - 1].op = "delete_location"
    /\ calls[Len(calls) - 2].op = "delete_location"

----------------------------------------------------------------------------
(* C19 *)

\* main() is one sequential thread: whenever a statement can be executed, it
\* is executed
LiveSpec == Spec /\ WF_vars(Next)

\* the claim's premise has failed: a remote call raised, a configuration error
\* was raised before the task was polled, describe_task answered UNAVAILABLE, or
\* the remote service has answered with a pending status as often as the model
\* lets the run poll
PremiseFailed ==
    \/ \E i \in DOMAIN calls : calls[i].result = Raised
    \/ pc = "failed" /\ error.kind \in {"KeyError", "InvalidConfigError"}
    \/ \E i \in Indices("describe_task") : calls[i].result = "UNAVAILABLE"
    \/ /\ Count("describe_task") = MaxTaskPolls
       /\ \A i \in Indices("describe_task") : calls[i].result \notin ReadyStatuses
    \/ /\ Count("describe_task_execution") = MaxExecPolls
       /\ \A i \in Indices("describe_task_execution") :
             calls[i].result \notin TerminalStatuses

\* the run has ended normally, after one start_task_execution, both deletions
\* and, when a topic is configured, one published notification
RanToCompletion ==
    /\ pc = "done"
    /\ ~ENABLED Next
    /\ Count("start_task_execution") = 1
    /\ Count("delete_location") = 2
    /\ config.sns_topic_arn # Absent => Count("publish") = 1
    /\ \A i \in DOMAIN calls : calls[i].result # Raised

\* C19: every run in which no remote call raises, describe_task comes to answer
\* AVAILABLE or QUEUED and describe_task_execution comes to answer SUCCESS or
\* ERROR eventually ends normally, with start_task_execution issued exactly
\* once and the cleanup and the notification (if configured) done.
C19_Termination == <>(RanToCompletion \/ PremiseFailed)

\* C19 witness: a run ended normally after two polls of each kind and its
\* notification
C19_Witness ==
    /\ RanToCompletion
    /\ ~PremiseFailed
    /\ Count("describe_task") = 2
    /\ Count("describe_task_execution") = 2
    /\ Count("publish") = 1

====
